---- MODULE Spec2Model ----
(***************************************************************************)
(* The /createTransaction route handlers of the Kaspa REST wrapper.        *)
(*                                                                         *)
(*   "multi"    src/unnamed/part_000  accumulates several UTXOs, signs,    *)
(*                                    broadcasts                           *)
(*   "single"   src/index.js          picks one UTXO, signs, broadcasts    *)
(*   "unsigned" src/unnamed/part_001  returns an unsigned transaction      *)
(*                                                                         *)
(* A handler is an async function: it runs without interruption up to the  *)
(* next await, so every action below is one such segment, from the arrival *)
(* of a request or of a collaborator's answer up to the next await or the  *)
(* response.  What the collaborators answer (the UTXO list, a transport    *)
(* failure, the balance) and whether the library signs an input are inputs *)
(* of the actions.                                                         *)
(*                                                                         *)
(* Amounts of the ledger are integers of sompi (1 KAS = 10^8 sompi).  The  *)
(* numbers of a request body (amount, fee) are decimals of KAS; the model  *)
(* writes them as integers of 10^-9 KAS, one digit finer than a sompi, so  *)
(* that the flooring of the conversion is visible.                         *)
(***************************************************************************)
EXTENDS Integers, Sequences, FiniteSets, TLC

\* Longest UTXO list the ledger answers with.
MaxUtxos == 3

\* The request slots; Spec handles one request, in slot 1.
Reqs == {1, 2}

----------------------------------------------------------------------------
(* Strings the code inspects character by character are sequences of       *)
(* one-character strings.                                                  *)

Rep(c, n) == [i \in 1..n |-> c]

KaspaPrefix == <<"k", "a", "s", "p", "a", ":">>

LowerAlnum ==
    {"a", "b", "c", "d", "e", "f", "g", "h", "i", "j", "k", "l", "m",
     "n", "o", "p", "q", "r", "s", "t", "u", "v", "w", "x", "y", "z",
     "0", "1", "2", "3", "4", "5", "6", "7", "8", "9"}

\* The pattern without its end anchor: /^kaspa:[a-z0-9]{61,63}/
kaspaRegexTestOpenEnd(s) ==
    /\ Len(s) >= Len(KaspaPrefix) + 61
    /\ SubSeq(s, 1, Len(KaspaPrefix)) = KaspaPrefix
    /\ \A i \in (Len(KaspaPrefix) + 1)..(Len(KaspaPrefix) + 61) :
          s[i] \in LowerAlnum

\* /^kaspa:[a-z0-9]{61,63}$/.test(s)
kaspaRegexTest(s) ==
    /\ Len(s) >= Len(KaspaPrefix)
    /\ SubSeq(s, 1, Len(KaspaPrefix)) = KaspaPrefix
    /\ (Len(s) - Len(KaspaPrefix)) \in 61..63
    /\ \A i \in (Len(KaspaPrefix) + 1)..Len(s) : s[i] \in LowerAlnum

AddrA         == KaspaPrefix \o Rep("q", 61)
AddrB         == KaspaPrefix \o Rep("z", 63)
AddrShort     == KaspaPrefix \o Rep("q", 60)
AddrLong      == KaspaPrefix \o Rep("q", 64)
AddrUpper     == KaspaPrefix \o Rep("q", 60) \o <<"Q">>
AddrBadPrefix == <<"k", "a", "s", "p", "b", ":">> \o Rep("q", 61)
NoString      == << >>

AddressInputs ==
    {NoString, AddrA, AddrB, AddrShort, AddrLong, AddrUpper, AddrBadPrefix}

----------------------------------------------------------------------------
(* The JSON values of amount and fee.                                      *)

Undefined == [t |-> "undefined", n |-> 0]
Num(n)    == [t |-> "number", n |-> n]
\* a string that is no number: every comparison with it is false
NotANumber == [t |-> "NaN", n |-> 0]

\* 1 KAS, 1.499999 KAS, 0.29 KAS, 1.02 KAS, half a sompi, 0, -1 KAS
AmountInputs ==
    {Undefined, NotANumber} \cup
    {Num(n) : n \in {1000000000, 1499999000, 290000000, 1020000000, 5, 0,
                     -1000000000}}

\* 0, 0.0001 KAS, 0.3 sompi, -0.0001 KAS
FeeInputs ==
    {Undefined, NotANumber} \cup {Num(n) : n \in {0, 100000, 3, -100000}}

\* The decimals of the model whose IEEE-754 product with 1e8 falls just below
\* the integer it stands for (0.29 * 1e8 is 28999999.999999996).
FloatShort == {290000000}

\* Math.floor(x * 1e8), x a number written in 10^-9 KAS
MathFloorTimes1e8(n) ==
    IF n \in FloatShort THEN (n \div 10) - 1 ELSE n \div 10

\* Number(b) of a BigInt b >= 0: exact below 2^53 = 2^27 * 2^26, which every
\* amount of the model is; from there to 2^54 the nearest even integer, ties
\* to the even mantissa.
NumberOf(b) ==
    IF (b \div 134217728) < 67108864 \/ b % 2 = 0
    THEN b
    ELSE 4 * ((b + 1) \div 4)

\* BigInt.prototype.toString(): the decimal digits, most significant first
RECURSIVE Digits(_)
Digits(n) == IF n < 10 THEN <<n>> ELSE Append(Digits(n \div 10), n % 10)

toString(b) ==
    IF b < 0 THEN <<"-">> \o Digits(0 - b) ELSE Digits(b)

----------------------------------------------------------------------------
(* Private keys: the empty string, a string no key can be built from, and  *)
(* a well-formed key.                                                      *)

PrivateKeyInputs == {"", "nothex", "key1"}

\* new PrivateKey(k) throws on a malformed key
PrivateKeyThrows(k) == k # "key1"

Bodies ==
    [senderAddress : AddressInputs, recipientAddress : AddressInputs,
     amount : AmountInputs, fee : FeeInputs, privateKey : PrivateKeyInputs]

----------------------------------------------------------------------------
(* The UTXOs of the ledger's answer.  The k-th entry of an answer has its  *)
(* own outpoint; its amount is any of UtxoAmounts.                         *)

UtxoAmounts == {50000000, 100000000, 102000000, 101999999, 150000000}

OutpointAt(k) == [transactionId |-> <<"tx", (k + 1) \div 2>>,
                  index |-> (k + 1) % 2]

UtxoLists ==
    UNION {[1..n -> UtxoAmounts] : n \in 0..MaxUtxos}

\* the answer of GET /addresses/<address>/utxos with the amounts am
UtxosOf(am) ==
    [k \in 1..Len(am) |-> [outpoint |-> OutpointAt(k), amount |-> am[k]]]

RECURSIVE SumAmounts(_)
SumAmounts(us) ==
    IF us = << >> THEN 0 ELSE us[1].amount + SumAmounts(Tail(us))

----------------------------------------------------------------------------
(* The state of one request: the handler's locals, the events of its run   *)
(* in the order the code produces them, what it handed to POST             *)
(* /transactions and what it answered.                                     *)

EmptyTx == [version |-> 0, inputs |-> << >>, outputs |-> << >>]

NoBody == [senderAddress |-> NoString, recipientAddress |-> NoString,
           amount |-> Undefined, fee |-> Undefined, privateKey |-> ""]

IdleReq ==
    [variant |-> "none", pc |-> "idle", body |-> NoBody,
     amountToSend |-> 0, feeAmount |-> 0, totalNeeded |-> 0,
     utxos |-> << >>, inputs |-> << >>, inputSum |-> 0, changeAmount |-> 0,
     tx |-> EmptyTx, restApiJson |-> << >>, txResponse |-> << >>,
     log |-> << >>, responses |-> << >>]

VARIABLES reqs

vars == <<reqs>>

Variants == {"multi", "single", "unsigned"}

Log(q, ev) == [q EXCEPT !.log = Append(@, ev)]

\* res.status(status).json(...): the response ends the handler's run
Respond(q, status, error, data) ==
    [q EXCEPT !.pc = "done",
              !.log = Append(@, "respond"),
              !.responses = Append(@, [status |-> status, error |-> error,
                                       data |-> data])]

----------------------------------------------------------------------------
(* Validation, the same statements in the three handlers.                  *)

\* amount <= 0 and fee < 0: a comparison with NaN is false
LeqZero(v) == v.t = "number" /\ v.n <= 0
LtZero(v)  == v.t = "number" /\ v.n < 0

\* The checks without the comparison of recipient and sender.
ValidateNoSelfCheck(b) ==
    IF \/ b.senderAddress = NoString
       \/ b.recipientAddress = NoString
       \/ b.amount = Undefined
       \/ b.fee = Undefined
       \/ b.privateKey = ""
    THEN "Missing required parameters"
    ELSE IF ~kaspaRegexTest(b.senderAddress)
    THEN "Invalid sender address format"
    ELSE IF ~kaspaRegexTest(b.recipientAddress)
    THEN "Invalid recipient address format"
    ELSE IF LeqZero(b.amount)
    THEN "Transfer amount must be greater than 0"
    ELSE IF LtZero(b.fee)
    THEN "Fee cannot be negative"
    ELSE ""

\* The error message of the first failing check, "" when all pass.
Validate(b) ==
    IF \/ b.senderAddress = NoString
       \/ b.recipientAddress = NoString
       \/ b.amount = Undefined
       \/ b.fee = Undefined
       \/ b.privateKey = ""
    THEN "Missing required parameters"
    ELSE IF ~kaspaRegexTest(b.senderAddress)
    THEN "Invalid sender address format"
    ELSE IF ~kaspaRegexTest(b.recipientAddress)
    THEN "Invalid recipient address format"
    ELSE IF b.recipientAddress = b.senderAddress
    THEN "Recipient address cannot equal sender address"
    ELSE IF LeqZero(b.amount)
    THEN "Transfer amount must be greater than 0"
    ELSE IF LtZero(b.fee)
    THEN "Fee cannot be negative"
    ELSE ""

\* BigInt(Math.floor(NaN)) throws a RangeError
ConversionThrows(b) == b.amount.t = "NaN" \/ b.fee.t = "NaN"

\* A handler without the try: the rejection is handled by nobody and no
\* response is sent.
CatchUnhandled(q, details) == [Log(q, "unhandledRejection") EXCEPT !.pc = "rejected"]

\* catch (err) of the signing handlers
Catch(q, details) ==
    Respond(q, 500, "Transaction creation failed", [details |-> details])

----------------------------------------------------------------------------
(* The multi-UTXO handler, src/unnamed/part_000.                           *)

\* Lines 120-122: the conversion to sompi.
Convert(q) ==
    LET a == MathFloorTimes1e8(q.body.amount.n)
        f == MathFloorTimes1e8(q.body.fee.n)
    IN  [q EXCEPT !.amountToSend = a, !.feeAmount = f, !.totalNeeded = a + f]

\* The first segment with a key whose construction cannot fail.
MultiReceiveAnyKey(q) ==
    LET err == Validate(q.body) IN
    IF err # "" THEN Respond(q, 400, err, [details |-> ""])
    ELSE IF ConversionThrows(q.body)
    THEN Catch(Log(q, "Validated"), "RangeError")
    ELSE LET q1 == Log(Convert(Log(q, "Validated")), "newPrivateKey") IN
         [Log(q1, "fetchUtxos") EXCEPT !.pc = "awaitUtxos"]

\* Lines 78-129: from the arrival of the request to the UTXO fetch.
MultiReceive(q) ==
    LET err == Validate(q.body) IN
    IF err # "" THEN Respond(q, 400, err, [details |-> ""])
    ELSE IF ConversionThrows(q.body)
    THEN Catch(Log(q, "Validated"), "RangeError")
    ELSE LET q1 == Log(Convert(Log(q, "Validated")), "newPrivateKey") IN
         IF PrivateKeyThrows(q.body.privateKey)
         THEN Catch(q1, "Invalid private key")
         ELSE [Log(q1, "fetchUtxos") EXCEPT !.pc = "awaitUtxos"]

\* Lines 132-138: the loop over the fetched UTXOs, from the i-th on.
RECURSIVE SelectLoop(_, _, _, _, _)
SelectLoop(utxos, i, inputs, inputSum, totalNeeded) ==
    IF i > Len(utxos)
    THEN [inputs |-> inputs, inputSum |-> inputSum]
    ELSE LET ins == Append(inputs, utxos[i])
             sum == inputSum + utxos[i].amount
         IN  IF sum >= totalNeeded
             THEN [inputs |-> ins, inputSum |-> sum]
             ELSE SelectLoop(utxos, i + 1, ins, sum, totalNeeded)

\* The loop with its bound one short: the last UTXO is never looked at.
RECURSIVE SelectLoopShort(_, _, _, _, _)
SelectLoopShort(utxos, i, inputs, inputSum, totalNeeded) ==
    IF i >= Len(utxos)
    THEN [inputs |-> inputs, inputSum |-> inputSum]
    ELSE LET ins == Append(inputs, utxos[i])
             sum == inputSum + utxos[i].amount
         IN  IF sum >= totalNeeded
             THEN [inputs |-> ins, inputSum |-> sum]
             ELSE SelectLoopShort(utxos, i + 1, ins, sum, totalNeeded)

SelectShort(utxos, totalNeeded) ==
    SelectLoopShort(utxos, 1, << >>, 0, totalNeeded)

\* The loop run over the candidates from the last to the first.
SelectFromLast(utxos, totalNeeded) ==
    SelectLoop([i \in 1..Len(utxos) |-> utxos[Len(utxos) + 1 - i]],
               1, << >>, 0, totalNeeded)

\* Lines 132-138: inputs and inputSum after the loop.
Select(utxos, totalNeeded) == SelectLoop(utxos, 1, << >>, 0, totalNeeded)

\* The check that only an empty selection is insufficient.
InsufficientWhenEmpty(inputSum, totalNeeded) == inputSum = 0

\* Line 139: the selected inputs do not cover the total.
Insufficient(inputSum, totalNeeded) == inputSum < totalNeeded

\* Lines 149-158: new Transaction.Input.PublicKey of a selected UTXO.
TxInput(u) ==
    [prevTxId |-> u.outpoint.transactionId, outputIndex |-> u.outpoint.index,
     sequenceNumber |-> 0, satoshis |-> NumberOf(u.amount)]

\* new Transaction.Output paying satoshis to the script of an address
TxOutput(address, satoshis) ==
    [script |-> <<"script", address>>, satoshis |-> satoshis]

\* The minimum floored before the product: Math.floor(0.02) * 1e8.
MinChangeFlooredFirst == MathFloorTimes1e8(0)

\* Line 171: BigInt(Math.floor(0.02 * 1e8))
MinChange == MathFloorTimes1e8(20000000)

\* The change output with the fee left in it.
MultiOutputsFeeInChange(q, changeAmount) ==
    <<TxOutput(q.body.recipientAddress, NumberOf(q.amountToSend))>>
    \o (IF changeAmount >= MinChange
        THEN <<TxOutput(q.body.senderAddress,
                        NumberOf(changeAmount + q.feeAmount))>>
        ELSE << >>)

\* The change output only above the minimum, not at it.
MultiOutputsAbove(q, changeAmount) ==
    <<TxOutput(q.body.recipientAddress, NumberOf(q.amountToSend))>>
    \o (IF changeAmount > MinChange
        THEN <<TxOutput(q.body.senderAddress, NumberOf(changeAmount))>>
        ELSE << >>)

\* The change output added before the recipient output.
MultiOutputsChangeFirst(q, changeAmount) ==
    (IF changeAmount >= MinChange
     THEN <<TxOutput(q.body.senderAddress, NumberOf(changeAmount))>>
     ELSE << >>)
    \o <<TxOutput(q.body.recipientAddress, NumberOf(q.amountToSend))>>

\* Lines 161-176: the recipient output, then the change output.
MultiOutputs(q, changeAmount) ==
    <<TxOutput(q.body.recipientAddress, NumberOf(q.amountToSend))>>
    \o (IF changeAmount >= MinChange
        THEN <<TxOutput(q.body.senderAddress, NumberOf(changeAmount))>>
        ELSE << >>)

\* input.getSignatures(tx, sk, index, SIGHASH_ALL, null, "schnorr")[0]:
\* the signature of the transaction's digest for the input at index
Signature(tx, sk, index) ==
    [by |-> sk, sighash |-> "ALL", index |-> index,
     inputs |-> [i \in 1..Len(tx.inputs) |->
                    <<tx.inputs[i].prevTxId, tx.inputs[i].outputIndex>>],
     outputs |-> tx.outputs]

\* The signed input that names the outpoint of the first input throughout.
MultiSignedInputFirst(tx, sk, index) ==
    LET input == tx.inputs[1] IN
    [previousOutpoint |-> [transactionId |-> input.prevTxId,
                           index |-> input.outputIndex],
     signatureScript |-> <<"41", Signature(tx, sk, index), "01">>,
     sequence |-> input.sequenceNumber,
     sigOpCount |-> 1]

\* The signed input whose signature is made for input 0 throughout.
MultiSignedInputIndexZero(tx, sk, index) ==
    LET input == tx.inputs[index + 1] IN
    [previousOutpoint |-> [transactionId |-> input.prevTxId,
                           index |-> input.outputIndex],
     signatureScript |-> <<"41", Signature(tx, sk, 0), "01">>,
     sequence |-> input.sequenceNumber,
     sigOpCount |-> 1]

\* Lines 179-201: the signed input of tx.inputs[index + 1].
MultiSignedInput(tx, sk, index) ==
    LET input == tx.inputs[index + 1] IN
    [previousOutpoint |-> [transactionId |-> input.prevTxId,
                           index |-> input.outputIndex],
     signatureScript |-> <<"41", Signature(tx, sk, index), "01">>,
     sequence |-> input.sequenceNumber,
     sigOpCount |-> 1]

\* The payload with a subnetwork id of sixteen bytes and no orphans.
MultiRestApiJsonShortSubnet(tx, signedInputs) ==
    [transaction |->
        [version |-> tx.version,
         inputs |-> signedInputs,
         outputs |-> [k \in 1..Len(tx.outputs) |->
                        [amount |-> tx.outputs[k].satoshis,
                         scriptPublicKey |->
                            [version |-> 0,
                             scriptPublicKey |-> tx.outputs[k].script]]],
         lockTime |-> 0,
         subnetworkId |-> Rep("0", 32)],
     allowOrphan |-> FALSE]

\* Lines 204-219.
MultiRestApiJson(tx, signedInputs) ==
    [transaction |->
        [version |-> tx.version,
         inputs |-> signedInputs,
         outputs |-> [k \in 1..Len(tx.outputs) |->
                        [amount |-> tx.outputs[k].satoshis,
                         scriptPublicKey |->
                            [version |-> 0,
                             scriptPublicKey |-> tx.outputs[k].script]]],
         lockTime |-> 0,
         subnetworkId |-> Rep("0", 40)],
     allowOrphan |-> TRUE]

\* the log with n more attempts to sign
RECURSIVE LogSigns(_, _)
LogSigns(q, n) == IF n = 0 THEN q ELSE LogSigns(Log(q, "sign"), n - 1)

\* What the library can refuse in a run: nothing, the address of an output,
\* or the signature of the k-th input.
LibFailures(n) ==
    {<<"none", 0>>, <<"address", 0>>} \cup {<<"sign", k>> : k \in 1..n}

\* Lines 131-225: from the ledger's answer to the broadcast.
MultiOnUtxos(q, utxos, fail) ==
    LET sel == Select(utxos, q.totalNeeded)
        q1  == [Log(q, "utxosFetched")
                    EXCEPT !.utxos = utxos, !.inputs = sel.inputs,
                           !.inputSum = sel.inputSum]
    IN
    IF Insufficient(sel.inputSum, q.totalNeeded)
    THEN Respond(q1, 400, "Insufficient UTXOs for requested amount",
                 [details |-> ""])
    ELSE
    LET q2 == Log(q1, "Selected")
        txIn == [i \in 1..Len(sel.inputs) |-> TxInput(sel.inputs[i])]
        changeAmount == sel.inputSum - q.totalNeeded
        tx == [version |-> 0, inputs |-> txIn,
               outputs |-> MultiOutputs(q, changeAmount)]
        q3 == Log([q2 EXCEPT !.changeAmount = changeAmount, !.tx = tx],
                  "Built")
        signedInputs ==
            [i \in 1..Len(tx.inputs) |->
                MultiSignedInput(tx, q.body.privateKey, i - 1)]
        restApiJson == MultiRestApiJson(tx, signedInputs)
    IN
    IF fail[1] = "address"
    THEN Catch([q2 EXCEPT !.changeAmount = changeAmount,
                          !.tx = [version |-> 0, inputs |-> txIn,
                                  outputs |-> << >>]],
               "Invalid address")
    ELSE IF fail[1] = "sign"
    THEN Catch(LogSigns(q3, fail[2]), "Cannot read properties of undefined")
    ELSE
    [Log(Log(Log(LogSigns(q3, Len(tx.inputs)), "Signed"), "Serialized"),
         "broadcast")
        EXCEPT !.restApiJson = <<restApiJson>>, !.pc = "awaitBroadcast"]

\* Lines 221-233: the broadcast went through; the balance is asked for.
OnBroadcast(q, txResponse) ==
    [Log(q, "fetchBalance") EXCEPT !.txResponse = <<txResponse>>,
                                   !.pc = "awaitBalance"]

\* A failed broadcast that is swallowed like a failed balance lookup.
OnBroadcastFailSwallow(q) == OnBroadcast(q, [transactionId |-> ""])

\* A failed broadcast that starts the build over with a new fetch.
OnBroadcastFailRetry(q) == [Log(q, "fetchUtxos") EXCEPT !.pc = "awaitUtxos"]

\* Lines 243-249: the broadcast failed; the error is answered.
OnBroadcastFail(q) == Catch(q, "rejected")

\* The response that reports the amount alone as charged.
OnBalanceNoFee(q, balance) ==
    Respond(q, 200, "",
            [transactionId |-> q.txResponse[1].transactionId,
             transferredAmount |-> toString(q.amountToSend),
             chargedAmount |-> toString(q.amountToSend),
             walletBalance |-> balance])

\* Lines 235-242 (index.js 238-245): balance is << >> for null.
OnBalance(q, balance) ==
    Respond(q, 200, "",
            [transactionId |-> q.txResponse[1].transactionId,
             transferredAmount |-> toString(q.amountToSend),
             chargedAmount |-> toString(q.totalNeeded),
             walletBalance |-> balance])

----------------------------------------------------------------------------
(* The single-UTXO handler, src/index.js.                                  *)

\* Lines 78-126.
SingleReceive(q) ==
    LET err == Validate(q.body) IN
    IF err # "" THEN Respond(q, 400, err, [details |-> ""])
    ELSE LET q1 == Log(Log(q, "Validated"), "newPrivateKey") IN
         IF PrivateKeyThrows(q.body.privateKey)
         THEN Catch(q1, "Invalid private key")
         ELSE [Log(q1, "fetchUtxos") EXCEPT !.pc = "awaitUtxos"]

\* Line 128: utxos.find(u => u.utxoEntry.amount >= 100000), << >> if none
RECURSIVE Find(_, _)
Find(utxos, i) ==
    IF i > Len(utxos) THEN << >>
    ELSE IF utxos[i].amount >= 100000 THEN <<utxos[i]>>
    ELSE Find(utxos, i + 1)

\* Lines 198-222: the two outputs are written from the amounts themselves.
SingleRestApiJson(tx, signedInputs, amountToSend, changeAmount) ==
    [transaction |->
        [version |-> tx.version,
         inputs |-> signedInputs,
         outputs |-> <<[amount |-> NumberOf(amountToSend),
                        scriptPublicKey |->
                            [version |-> 0,
                             scriptPublicKey |-> tx.outputs[1].script]],
                       [amount |-> NumberOf(changeAmount),
                        scriptPublicKey |->
                            [version |-> 0,
                             scriptPublicKey |-> tx.outputs[2].script]]>>,
         lockTime |-> 0,
         subnetworkId |-> Rep("0", 40)],
     allowOrphan |-> TRUE]

\* Lines 173-195: every input is signed with index 0.
SingleSignedInput(tx, sk, index) ==
    LET input == tx.inputs[index + 1] IN
    [previousOutpoint |-> [transactionId |-> input.prevTxId,
                           index |-> input.outputIndex],
     signatureScript |-> <<"41", Signature(tx, sk, 0), "01">>,
     sequence |-> input.sequenceNumber,
     sigOpCount |-> 1]

\* An output constructor that accepts any amount.
OutputAcceptsAll(satoshis) == FALSE

\* Lines 156-166: new Transaction.Output refuses satoshis that are no
\* natural number.
OutputThrows(satoshis) == satoshis < 0

\* Lines 128-228.
SingleOnUtxos(q, utxos, fail) ==
    LET found == Find(utxos, 1) IN
    IF found = << >>
    THEN Respond([Log(q, "utxosFetched") EXCEPT !.utxos = utxos], 400,
                 "No suitable UTXO available", [details |-> ""])
    ELSE
    LET selectedUtxo == found[1]
        q1 == Log([Log(q, "utxosFetched")
                      EXCEPT !.utxos = utxos, !.inputs = found,
                             !.inputSum = selectedUtxo.amount], "Selected")
    IN
    IF ConversionThrows(q.body) THEN Catch(q1, "RangeError")
    ELSE
    LET q2 == Convert(q1)
        changeAmount == selectedUtxo.amount - q2.amountToSend - q2.feeAmount
        tx == [version |-> 0, inputs |-> <<TxInput(selectedUtxo)>>,
               outputs |->
                  <<TxOutput(q.body.recipientAddress,
                             NumberOf(q2.amountToSend)),
                    TxOutput(q.body.senderAddress, NumberOf(changeAmount))>>]
        q3 == [q2 EXCEPT !.changeAmount = changeAmount]
        q4 == Log([q3 EXCEPT !.tx = tx], "Built")
        signedInputs ==
            [i \in 1..Len(tx.inputs) |->
                SingleSignedInput(tx, q.body.privateKey, i - 1)]
        restApiJson ==
            SingleRestApiJson(tx, signedInputs, q2.amountToSend, changeAmount)
    IN
    IF fail[1] = "address" THEN Catch(q3, "Invalid address")
    ELSE IF OutputThrows(NumberOf(changeAmount))
    THEN Catch(q3, "Output satoshis is not a natural number")
    ELSE IF fail[1] = "sign"
    THEN Catch(Log(q4, "sign"), "Cannot read properties of undefined")
    ELSE
    [Log(Log(Log(Log(q4, "sign"), "Signed"), "Serialized"), "broadcast")
        EXCEPT !.restApiJson = <<restApiJson>>, !.pc = "awaitBroadcast"]

----------------------------------------------------------------------------
(* The handler that returns an unsigned transaction, src/unnamed/part_001. *)

\* Lines 77-119.
UnsignedReceive(q) ==
    LET err == Validate(q.body) IN
    IF err # "" THEN Respond(q, 400, err, [details |-> ""])
    ELSE [Log(Log(q, "Validated"), "fetchUtxos") EXCEPT !.pc = "awaitUtxos"]

\* Lines 124-148.
UnsignedOnUtxos(q, utxos) ==
    IF Len(utxos) = 0
    THEN Respond(Log(q, "utxosFetched"), 400,
                 "No UTXOs available for the sender address",
                 [details |-> ""])
    ELSE
    LET q1 == [Log(q, "utxosFetched")
                  EXCEPT !.utxos = utxos, !.inputs = utxos,
                         !.inputSum = SumAmounts(utxos)]
    IN
    IF ConversionThrows(q.body)
    THEN Respond(q1, 500, "Internal server error", [details |-> ""])
    ELSE
    LET q2 == Convert(q1)
        changeAmount == q2.inputSum - q2.amountToSend - q2.feeAmount
        q3 == [q2 EXCEPT !.changeAmount = changeAmount]
    IN
    IF changeAmount < 0
    THEN Respond(q3, 400, "Insufficient funds", [details |-> ""])
    ELSE [Log(Log(q3, "Selected"), "fetchBalance")
            EXCEPT !.pc = "awaitBalance"]

\* Lines 153-173.
UnsignedOnBalance(q, balance) ==
    Respond(Log(q, "Built"), 200, "",
            [unsignedTx |->
                [inputs |-> [i \in 1..Len(q.inputs) |->
                        [transactionId |-> q.inputs[i].outpoint.transactionId,
                         outputIndex |-> q.inputs[i].outpoint.index,
                         amount |-> toString(q.inputs[i].amount)]],
                 outputs |-> <<[recipient |-> q.body.recipientAddress,
                                amount |-> toString(q.amountToSend)],
                               [recipient |-> q.body.senderAddress,
                                amount |-> toString(q.changeAmount)]>>],
             transferredAmount |-> toString(q.amountToSend),
             chargedAmount |-> toString(q.amountToSend + q.feeAmount),
             walletBalance |-> balance])

----------------------------------------------------------------------------
(* The actions: the arrival of a request and the collaborators' answers.   *)

Balances == {0, 50000000}

Init == reqs = [r \in Reqs |-> IdleReq]

\* POST /createTransaction arrives.
Receive(r) ==
    /\ reqs[r].pc = "idle"
    /\ \E v \in Variants, b \in Bodies :
        LET q == [IdleReq EXCEPT !.variant = v, !.body = b] IN
        reqs' = [reqs EXCEPT ![r] =
                    CASE v = "multi" -> MultiReceive(q)
                      [] v = "single" -> SingleReceive(q)
                      [] v = "unsigned" -> UnsignedReceive(q)]

\* GET /addresses/<sender>/utxos answers with a list.
UtxosAnswer(r) ==
    /\ reqs[r].pc = "awaitUtxos"
    /\ \E am \in UtxoLists :
        \E fail \in (IF reqs[r].variant = "unsigned"
                     THEN {<<"none", 0>>} ELSE LibFailures(Len(am))) :
            LET q == reqs[r]  utxos == UtxosOf(am) IN
            reqs' = [reqs EXCEPT ![r] =
                        CASE q.variant = "multi" ->
                                MultiOnUtxos(q, utxos, fail)
                          [] q.variant = "single" ->
                                SingleOnUtxos(q, utxos, fail)
                          [] q.variant = "unsigned" ->
                                UnsignedOnUtxos(q, utxos)]

\* A failed fetch that is tried again.
UtxosFailRetry(r) ==
    /\ reqs[r].pc = "awaitUtxos"
    /\ reqs' = [reqs EXCEPT ![r] = Log(@, "fetchUtxos")]

\* GET /addresses/<sender>/utxos fails.
UtxosFail(r) ==
    /\ reqs[r].pc = "awaitUtxos"
    /\ reqs' = [reqs EXCEPT ![r] =
                  IF @.variant = "unsigned"
                  THEN Respond(@, 400,
                          "Invalid sender address or unable to fetch UTXOs",
                          [details |-> ""])
                  ELSE Catch(@, "Network Error")]

\* POST /transactions accepts the transaction.
BroadcastAnswer(r) ==
    /\ reqs[r].pc = "awaitBroadcast"
    /\ reqs' = [reqs EXCEPT ![r] =
                  OnBroadcast(@, [transactionId |-> "accepted"])]

\* POST /transactions fails.
BroadcastFail(r) ==
    /\ reqs[r].pc = "awaitBroadcast"
    /\ reqs' = [reqs EXCEPT ![r] = OnBroadcastFail(@)]

\* GET /addresses/<sender>/balance answers.
BalanceAnswer(r) ==
    /\ reqs[r].pc = "awaitBalance"
    /\ \E bal \in Balances :
        reqs' = [reqs EXCEPT ![r] =
                    IF @.variant = "unsigned"
                    THEN UnsignedOnBalance(@, <<bal>>)
                    ELSE OnBalance(@, <<bal>>)]

\* A failed balance lookup that is not caught apart.
BalanceFailThrows(r) ==
    /\ reqs[r].pc = "awaitBalance"
    /\ reqs' = [reqs EXCEPT ![r] = Catch(@, "Network Error")]

\* GET /addresses/<sender>/balance fails: the balance is null.
BalanceFail(r) ==
    /\ reqs[r].pc = "awaitBalance"
    /\ reqs' = [reqs EXCEPT ![r] =
                  IF @.variant = "unsigned"
                  THEN UnsignedOnBalance(@, << >>)
                  ELSE OnBalance(@, << >>)]

Next ==
    \E r \in {1} :
        \/ Receive(r)
        \/ UtxosAnswer(r)
        \/ UtxosFail(r)
        \/ BroadcastAnswer(r)
        \/ BroadcastFail(r)
        \/ BalanceAnswer(r)
        \/ BalanceFail(r)

Spec == Init /\ [][Next]_vars


----------------------------------------------------------------------------
(* Two requests of the multi-UTXO handler in flight at once: Express runs  *)
(* a handler up to its next await, then any other handler may run.  Both   *)
(* requests spend from the same sender, whose UTXOs the ledger lists anew  *)
(* for each of them.                                                       *)

ConcBodies ==
    [senderAddress : {AddrA}, recipientAddress : {AddrB},
     amount : {Num(1000000000), Num(1020000000)}, fee : {Num(100000)},
     privateKey : {"key1"}]

\* the longest list the ledger answers to requests in flight at once
MaxConcUtxos == 2

ConcUtxoLists ==
    UNION {[1..n -> {50000000, 150000000}] : n \in 0..MaxConcUtxos}

\* POST /createTransaction arrives while another request may be in flight.
ReceiveConc(r) ==
    /\ reqs[r].pc = "idle"
    /\ \E b \in ConcBodies :
        reqs' = [reqs EXCEPT ![r] =
                    MultiReceive([IdleReq EXCEPT !.variant = "multi",
                                                 !.body = b])]

\* A handler whose totalNeeded is a variable of the module: after the
\* await it holds what the request that ran last has written.
UtxosAnswerConcShared(r) ==
    /\ reqs[r].pc = "awaitUtxos"
    /\ \E am \in ConcUtxoLists, o \in Reqs :
        /\ reqs[o].pc # "idle"
        /\ reqs' = [reqs EXCEPT ![r] =
                      MultiOnUtxos([@ EXCEPT !.totalNeeded =
                                                reqs[o].totalNeeded],
                                   UtxosOf(am), <<"none", 0>>)]

\* GET /addresses/<sender>/utxos answers one of the requests in flight.
UtxosAnswerConc(r) ==
    /\ reqs[r].pc = "awaitUtxos"
    /\ \E am \in ConcUtxoLists :
        \E fail \in {<<"none", 0>>, <<"sign", 1>>} :
            reqs' = [reqs EXCEPT ![r] =
                        MultiOnUtxos(@, UtxosOf(am), fail)]

NextConc ==
    \E r \in Reqs :
        \/ ReceiveConc(r)
        \/ UtxosAnswerConc(r)
        \/ UtxosFail(r)
        \/ BroadcastAnswer(r)
        \/ BroadcastFail(r)
        \/ BalanceAnswer(r)
        \/ BalanceFail(r)

SpecConc == Init /\ [][NextConc]_vars

----------------------------------------------------------------------------
(* One request of any of the three handlers on each of its paths, with     *)
(* the awaited calls all ending.                                           *)

\* bodies for every path: valid, self-payment, amount no number, bad key
LiveBodies ==
    [senderAddress : {AddrA}, recipientAddress : {AddrA, AddrB},
     amount : {Num(1000000000), NotANumber}, fee : {Num(0)},
     privateKey : {"key1", "nothex"}]

\* POST /createTransaction arrives.
ReceiveLive(r) ==
    /\ reqs[r].pc = "idle"
    /\ \E v \in Variants, b \in LiveBodies :
        LET q == [IdleReq EXCEPT !.variant = v, !.body = b] IN
        reqs' = [reqs EXCEPT ![r] =
                    CASE v = "multi" -> MultiReceive(q)
                      [] v = "single" -> SingleReceive(q)
                      [] v = "unsigned" -> UnsignedReceive(q)]

\* GET /addresses/<sender>/utxos answers with a list.
UtxosAnswerLive(r) ==
    /\ reqs[r].pc = "awaitUtxos"
    /\ \E am \in ConcUtxoLists :
        \E fail \in (IF reqs[r].variant = "unsigned"
                     THEN {<<"none", 0>>} ELSE LibFailures(Len(am))) :
            LET q == reqs[r]  utxos == UtxosOf(am) IN
            reqs' = [reqs EXCEPT ![r] =
                        CASE q.variant = "multi" ->
                                MultiOnUtxos(q, utxos, fail)
                          [] q.variant = "single" ->
                                SingleOnUtxos(q, utxos, fail)
                          [] q.variant = "unsigned" ->
                                UnsignedOnUtxos(q, utxos)]

NextLive ==
    \E r \in {1} :
        \/ ReceiveLive(r)
        \/ UtxosAnswerLive(r)
        \/ UtxosFail(r)
        \/ BroadcastAnswer(r)
        \/ BroadcastFail(r)
        \/ BalanceAnswer(r)
        \/ BalanceFail(r)

\* Every call the handler awaits (axios.get, axios.post) ends: its promise
\* is fulfilled or rejected, and the handler is resumed.
CollaboratorsAnswer ==
    \A r \in {1} :
        /\ WF_vars(UtxosAnswerLive(r) \/ UtxosFail(r))
        /\ WF_vars(BroadcastAnswer(r) \/ BroadcastFail(r))
        /\ WF_vars(BalanceAnswer(r) \/ BalanceFail(r))

SpecLive == Init /\ [][NextLive]_vars /\ CollaboratorsAnswer

----------------------------------------------------------------------------
(* The multi-UTXO handler (request 1) and the single-UTXO handler          *)
(* (request 2) side by side: both are given the same body and the same     *)
(* answers of the ledger and of the library.                               *)

PairBodies ==
    [senderAddress : {AddrA}, recipientAddress : {AddrB},
     amount : {Num(1000000000), Num(1020000000), Num(500000)},
     fee : {Num(0), Num(100000)},
     privateKey : {"key1", "nothex"}]

\* the amounts of the one UTXO the ledger lists
PairUtxoAmounts == UtxoAmounts \cup {50000}

\* some request waits at pc
Waiting(pc) == \E r \in Reqs : reqs[r].pc = pc

\* every request that waits at pc goes on with F
Each(pc, F(_)) ==
    [r \in Reqs |-> IF reqs[r].pc = pc THEN F(reqs[r]) ELSE reqs[r]]

\* POST /createTransaction arrives at both handlers with the same body.
PairReceive ==
    /\ \A r \in Reqs : reqs[r].pc = "idle"
    /\ \E b \in PairBodies :
        reqs' = [r \in Reqs |->
                   IF r = 1
                   THEN MultiReceive([IdleReq EXCEPT !.variant = "multi",
                                                     !.body = b])
                   ELSE SingleReceive([IdleReq EXCEPT !.variant = "single",
                                                      !.body = b])]

\* The ledger lists the same UTXO to both.
PairUtxosAnswer ==
    /\ Waiting("awaitUtxos")
    /\ \E a \in PairUtxoAmounts, fail \in LibFailures(1) :
        reqs' = Each("awaitUtxos",
                     LAMBDA q : IF q.variant = "multi"
                                THEN MultiOnUtxos(q, UtxosOf(<<a>>), fail)
                                ELSE SingleOnUtxos(q, UtxosOf(<<a>>), fail))

PairUtxosFail ==
    /\ Waiting("awaitUtxos")
    /\ reqs' = Each("awaitUtxos", LAMBDA q : Catch(q, "Network Error"))

PairBroadcastAnswer ==
    /\ Waiting("awaitBroadcast")
    /\ reqs' = Each("awaitBroadcast",
                    LAMBDA q : OnBroadcast(q, [transactionId |-> "accepted"]))

PairBroadcastFail ==
    /\ Waiting("awaitBroadcast")
    /\ reqs' = Each("awaitBroadcast", OnBroadcastFail)

PairBalanceAnswer ==
    /\ Waiting("awaitBalance")
    /\ \E bal \in Balances :
        reqs' = Each("awaitBalance", LAMBDA q : OnBalance(q, <<bal>>))

PairBalanceFail ==
    /\ Waiting("awaitBalance")
    /\ reqs' = Each("awaitBalance", LAMBDA q : OnBalance(q, << >>))

NextPair ==
    \/ PairReceive
    \/ PairUtxosAnswer
    \/ PairUtxosFail
    \/ PairBroadcastAnswer
    \/ PairBroadcastFail
    \/ PairBalanceAnswer
    \/ PairBalanceFail

SpecPair == Init /\ [][NextPair]_vars

----------------------------------------------------------------------------
(* What the properties speak of.                                           *)

Happened(q, ev) == \E i \in 1..Len(q.log) : q.log[i] = ev

\* the request handed a payload to POST /transactions
Broadcast(q) == q.restApiJson # << >>

PayloadInputs(q)  == q.restApiJson[1].transaction.inputs
PayloadOutputs(q) == q.restApiJson[1].transaction.outputs

RECURSIVE SeqSum(_)
SeqSum(xs) == IF xs = << >> THEN 0 ELSE xs[1] + SeqSum(Tail(xs))

\* the ledger's amount of the UTXO an outpoint names
LedgerAmount(utxos, outpoint) ==
    LET k == CHOOSE j \in 1..Len(utxos) : utxos[j].outpoint = outpoint
    IN  utxos[k].amount

\* the value the payload's inputs spend, and the value its outputs pay
SpentValue(q) ==
    SeqSum([i \in 1..Len(PayloadInputs(q)) |->
              LedgerAmount(q.utxos, PayloadInputs(q)[i].previousOutpoint)])
PaidValue(q) ==
    SeqSum([k \in 1..Len(PayloadOutputs(q)) |-> PayloadOutputs(q)[k].amount])

PaysTo(output, address) ==
    output.scriptPublicKey.scriptPublicKey = <<"script", address>>

\* the outputs of the payload that pay the sender
ChangeOutputs(q) ==
    {k \in 1..Len(PayloadOutputs(q)) :
        PaysTo(PayloadOutputs(q)[k], q.body.senderAddress)}

\* selected sum - amount - fee
ComputedChange(q) == SpentValue(q) - q.amountToSend - q.feeAmount

----------------------------------------------------------------------------
\* C1: in the multi-UTXO handler, for every request that reaches the
\* broadcast, the amounts of the payload's outputs plus the fee plus the
\* forfeited change (the computed change when the payload has no change
\* output, 0 otherwise) equal the amounts of the selected inputs.
C1_ValueConservation ==
    \A r \in Reqs :
        LET q == reqs[r] IN
        (q.variant = "multi" /\ Broadcast(q)) =>
            LET forfeited ==
                    IF ChangeOutputs(q) = {} THEN ComputedChange(q) ELSE 0
            IN  PaidValue(q) + q.feeAmount + forfeited = SpentValue(q)

\* a broadcast of several inputs with a fee and a change output
C1_Witness ==
    \E r \in Reqs :
        LET q == reqs[r] IN
        /\ q.variant = "multi" /\ Broadcast(q)
        /\ Len(PayloadInputs(q)) >= 2
        /\ q.feeAmount > 0
        /\ ChangeOutputs(q) # {}

C3_SelectionCovers ==
    \A r \in Reqs :
        LET q == reqs[r] IN
        (/\ q.variant = "multi"
         /\ Happened(q, "utxosFetched")
         /\ SumAmounts(q.utxos) >= q.amountToSend + q.feeAmount) =>
            /\ Happened(q, "Selected")
            /\ \A i \in 1..Len(q.responses) :
                  q.responses[i].error
                      # "Insufficient UTXOs for requested amount"
            /\ SumAmounts(q.inputs) >= q.amountToSend + q.feeAmount
            /\ q.inputSum = SumAmounts(q.inputs)

\* a selection that needed the last of several candidates
C3_Witness ==
    \E r \in Reqs :
        LET q == reqs[r] IN
        /\ q.variant = "multi"
        /\ Happened(q, "Selected")
        /\ Len(q.utxos) >= 2
        /\ q.inputs = q.utxos
        /\ q.amountToSend + q.feeAmount > 0

\* the selected inputs but the last
AllButLast(xs) == SubSeq(xs, 1, Len(xs) - 1)

\* C4: in the multi-UTXO handler, for every valid request (amount > 0,
\* fee >= 0) and candidate list on which the selection succeeds, the selected
\* UTXOs but the last sum to strictly less than target = amount + fee.
C4_GreedyMinimal ==
    \A r \in Reqs :
        LET q == reqs[r] IN
        (q.variant = "multi" /\ Happened(q, "Selected") /\ q.inputs # << >>) =>
            SumAmounts(AllButLast(q.inputs)) < q.amountToSend + q.feeAmount

\* C5: in the multi-UTXO handler, when the fetched candidates total less than
\* amount + fee, the request ends with the insufficient-funds error, and no
\* transaction is built, no input signed and nothing broadcast.
C5_InsufficientFunds ==
    \A r \in Reqs :
        LET q == reqs[r] IN
        (/\ q.variant = "multi"
         /\ Happened(q, "utxosFetched")
         /\ SumAmounts(q.utxos) < q.amountToSend + q.feeAmount) =>
            /\ q.pc = "done"
            /\ Len(q.responses) = 1
            /\ q.responses[1].status = 400
            /\ q.responses[1].error = "Insufficient UTXOs for requested amount"
            /\ q.tx = EmptyTx
            /\ ~Happened(q, "Built")
            /\ ~Happened(q, "sign")
            /\ ~Happened(q, "broadcast")
            /\ ~Broadcast(q)

\* candidates that are there and do not cover the total
C5_Witness ==
    \E r \in Reqs :
        LET q == reqs[r] IN
        /\ q.variant = "multi"
        /\ Happened(q, "utxosFetched")
        /\ Len(q.utxos) >= 2
        /\ SumAmounts(q.utxos) < q.amountToSend + q.feeAmount
        /\ q.pc = "done"

\* the events of a run that reach a collaborator or the key
Effects == {"newPrivateKey", "fetchUtxos", "fetchBalance", "sign", "broadcast"}

NoEffect(q) == \A i \in 1..Len(q.log) : q.log[i] \notin Effects

ValidationErrors ==
    {"Missing required parameters", "Invalid sender address format",
     "Invalid recipient address format",
     "Recipient address cannot equal sender address",
     "Transfer amount must be greater than 0", "Fee cannot be negative"}

Malformed == {AddrShort, AddrLong, AddrUpper, AddrBadPrefix}

\* C6: a request with a malformed sender or recipient address (wrong
\* prefix, wrong length, uppercase characters), an amount <= 0, a fee < 0 or
\* the recipient equal to the sender is answered with a validation error
\* before any UTXO fetch, balance fetch, key construction, signing or
\* broadcast: no collaborator call happens for it.
C6_ValidationBeforeEffects ==
    \A r \in Reqs :
        LET q == reqs[r]  b == q.body IN
        (/\ q.pc # "idle"
         /\ \/ b.senderAddress \in Malformed
            \/ b.recipientAddress \in Malformed
            \/ (b.amount.t = "number" /\ b.amount.n <= 0)
            \/ (b.fee.t = "number" /\ b.fee.n < 0)
            \/ b.recipientAddress = b.senderAddress) =>
            /\ q.pc = "done"
            /\ Len(q.responses) = 1
            /\ q.responses[1].status = 400
            /\ q.responses[1].error \in ValidationErrors
            /\ NoEffect(q)
            /\ ~Broadcast(q)

\* a request of the signing handlers whose only fault is an address that is
\* too long
C6_Witness ==
    \E r \in Reqs :
        LET q == reqs[r]  b == q.body IN
        /\ q.variant \in {"multi", "single"}
        /\ q.pc = "done"
        /\ b.senderAddress = AddrA /\ b.recipientAddress = AddrLong
        /\ b.amount = Num(1000000000) /\ b.fee = Num(0)
        /\ b.privateKey = "key1"
        /\ q.responses[1].error = "Invalid recipient address format"

\* C7: a request whose recipient address equals its sender address is
\* always answered with an error and never reaches the UTXO fetch, the
\* signing or the broadcast, whatever its amount and fee.
C7_SelfPaymentRejected ==
    \A r \in Reqs :
        LET q == reqs[r]  b == q.body IN
        (q.pc # "idle" /\ b.recipientAddress = b.senderAddress) =>
            /\ q.pc = "done"
            /\ Len(q.responses) = 1
            /\ q.responses[1].status >= 400
            /\ q.responses[1].error # ""
            /\ ~Happened(q, "fetchUtxos")
            /\ ~Happened(q, "sign")
            /\ ~Happened(q, "broadcast")
            /\ ~Broadcast(q)

\* a request that is valid but for paying its own sender
C7_Witness ==
    \E r \in Reqs :
        LET q == reqs[r]  b == q.body IN
        /\ q.pc = "done"
        /\ b.senderAddress = AddrB /\ b.recipientAddress = AddrB
        /\ b.amount = Num(1000000000) /\ b.fee = Num(100000)
        /\ b.privateKey = "key1"
        /\ q.responses[1].error
              = "Recipient address cannot equal sender address"

Count(q, ev) == Cardinality({i \in 1..Len(q.log) : q.log[i] = ev})

\* a run in which an input's signature was refused
SigningFailed(q) ==
    q.pc = "done" /\ Happened(q, "sign") /\ ~Happened(q, "Signed")

\* C8: whenever the multi-UTXO handler broadcasts, the payload carries
\* exactly one signed input for every selected UTXO, in the order of the
\* selection, each naming that UTXO's (transactionId, index) and carrying a
\* signature script; when the signing of an input fails nothing is
\* broadcast.
C8_AllInputsSigned ==
    \A r \in Reqs :
        LET q == reqs[r] IN
        q.variant = "multi" =>
            /\ Broadcast(q) =>
                /\ Len(PayloadInputs(q)) = Len(q.inputs)
                /\ Count(q, "sign") = Len(q.inputs)
                /\ \A i \in 1..Len(q.inputs) :
                    LET in == PayloadInputs(q)[i] IN
                    /\ in.previousOutpoint = q.inputs[i].outpoint
                    /\ Len(in.signatureScript) = 3
                    /\ in.signatureScript[2].by = q.body.privateKey
            /\ SigningFailed(q) =>
                /\ ~Broadcast(q)
                /\ ~Happened(q, "broadcast")

\* a broadcast of three signed inputs
C8_Witness ==
    \E r \in Reqs :
        LET q == reqs[r] IN
        /\ q.variant = "multi" /\ Broadcast(q)
        /\ Len(q.inputs) = 3
        /\ Len(PayloadInputs(q)) = 3

Stages == <<"Validated", "Selected", "Built", "Signed", "Serialized">>

IsStage(ev) == \E k \in 1..Len(Stages) : Stages[k] = ev

\* the stages a run entered, in the order it entered them
StagesEntered(q) == SelectSeq(q.log, IsStage)

IsPrefix(a, b) == Len(a) <= Len(b) /\ a = SubSeq(b, 1, Len(a))

\* C9: the pipeline of one request of the multi-UTXO handler is strictly
\* sequential: the stages Validated, Selected, Built, Signed, Serialized are
\* each entered at most once and only in that order; a failure in a stage
\* ends the request with an error and no later stage, the broadcast
\* included, is executed.
C9_StrictlySequential ==
    \A r \in Reqs :
        LET q == reqs[r] IN
        q.variant = "multi" =>
            /\ IsPrefix(StagesEntered(q), Stages)
            /\ \A i \in 1..Len(q.log) :
                  /\ q.log[i] = "respond" => i = Len(q.log) /\ q.pc = "done"
                  /\ q.log[i] = "broadcast" =>
                        /\ i > 1 /\ q.log[i - 1] = "Serialized"
                        /\ StagesEntered(q) = Stages
            /\ Count(q, "broadcast") <= 1
            /\ (q.pc = "done" /\ StagesEntered(q) # Stages) =>
                  /\ Len(q.responses) = 1
                  /\ q.responses[1].status >= 400
                  /\ ~Happened(q, "broadcast")
                  /\ ~Broadcast(q)

\* a run that went through every stage and whose broadcast failed
C9_Witness ==
    \E r \in Reqs :
        LET q == reqs[r] IN
        /\ q.variant = "multi"
        /\ q.pc = "done"
        /\ StagesEntered(q) = Stages
        /\ q.responses[1].status = 500

\* C10: every payload of the multi-UTXO handler has exactly one recipient
\* output, the first, with the converted amount of the request; the change
\* output, when there is one, is the second and last: a payload has one or
\* two outputs.
C10_OutputSet ==
    \A r \in Reqs :
        LET q == reqs[r] IN
        (q.variant = "multi" /\ Broadcast(q)) =>
            LET outs == PayloadOutputs(q) IN
            /\ Len(outs) \in {1, 2}
            /\ PaysTo(outs[1], q.body.recipientAddress)
            /\ outs[1].amount = MathFloorTimes1e8(q.body.amount.n)
            /\ {k \in 1..Len(outs) : PaysTo(outs[k], q.body.recipientAddress)}
                  = {1}
            /\ ChangeOutputs(q) \subseteq {2}
            /\ Len(outs) = 2 => ChangeOutputs(q) = {2}

\* the scenario of one UTXO of 1.5 KAS, amount 1 KAS and fee 0.0001 KAS:
\* the recipient's 100000000 first, the change of 49990000 second
C10_Witness ==
    \E r \in Reqs :
        LET q == reqs[r] IN
        /\ q.variant = "multi" /\ Broadcast(q)
        /\ Len(q.utxos) = 1 /\ q.utxos[1].amount = 150000000
        /\ q.body.amount = Num(1000000000) /\ q.body.fee = Num(100000)
        /\ Len(PayloadOutputs(q)) = 2
        /\ PayloadOutputs(q)[1].amount = 100000000
        /\ PayloadOutputs(q)[2].amount = 49990000

Signing == {"multi", "single"}

\* a request that is over stays as it is
Settled(r) == reqs[r].pc = "done" => reqs'[r] = reqs[r]

\* C11: the broadcast is attempted at most once per request and never
\* retried: when it fails, the request ends with an error response that
\* carries the upstream error detail, without a second broadcast call,
\* without a balance fetch and without a success response.
C11_BroadcastOnce ==
    [][\A r \in Reqs :
          /\ Settled(r)
          /\ Count(reqs'[r], "broadcast") <= 1
          /\ (reqs[r].variant \in Signing /\ BroadcastFail(r)) =>
                LET q == reqs'[r] IN
                /\ q.pc = "done"
                /\ Len(q.responses) = 1
                /\ q.responses[1].status = 500
                /\ q.responses[1].error = "Transaction creation failed"
                /\ q.responses[1].data.details = "rejected"
                /\ Count(q, "broadcast") = 1
                /\ ~Happened(q, "fetchBalance")
                /\ q.txResponse = << >>]_vars

\* a request of the multi-UTXO handler whose broadcast of two inputs failed
C11_Witness ==
    \E r \in Reqs :
        LET q == reqs[r] IN
        /\ q.variant = "multi" /\ Broadcast(q) /\ q.pc = "done"
        /\ Len(q.inputs) = 2
        /\ q.txResponse = << >>
        /\ q.responses[1].data.details = "rejected"

\* C12: when the fetch of the sender's UTXOs fails, the request ends at once
\* with an error response that reports the failure; the fetch is not
\* retried and nothing is selected, signed or broadcast.
C12_FetchFailureEnds ==
    [][\A r \in Reqs :
          /\ Settled(r)
          /\ UtxosFail(r) =>
                LET q == reqs'[r] IN
                /\ q.pc = "done"
                /\ Count(q, "fetchUtxos") = 1
                /\ Len(q.responses) = 1
                /\ q.responses[1].status >= 400
                /\ IF q.variant = "unsigned"
                   THEN q.responses[1].error
                          = "Invalid sender address or unable to fetch UTXOs"
                   ELSE /\ q.responses[1].error = "Transaction creation failed"
                        /\ q.responses[1].data.details = "Network Error"
                /\ ~Happened(q, "Selected")
                /\ ~Happened(q, "sign")
                /\ ~Happened(q, "broadcast")
                /\ q.inputs = << >> /\ ~Broadcast(q)]_vars

\* a request of the multi-UTXO handler that ended on the failed fetch
C12_Witness ==
    \E r \in Reqs :
        LET q == reqs[r] IN
        /\ q.variant = "multi" /\ q.pc = "done"
        /\ Happened(q, "fetchUtxos") /\ ~Happened(q, "utxosFetched")
        /\ q.responses[1].data.details = "Network Error"

\* C13: in the multi-UTXO handler, when the private key is invalid (its
\* construction fails) or the signing of an input fails, the request ends
\* with an error response and nothing is broadcast.
C13_KeyOrSigningFailure ==
    \A r \in Reqs :
        LET q == reqs[r] IN
        (/\ q.variant = "multi"
         /\ \/ (q.body.privateKey = "nothex" /\ Happened(q, "newPrivateKey"))
            \/ SigningFailed(q)) =>
            /\ q.pc = "done"
            /\ Len(q.responses) = 1
            /\ q.responses[1].status = 500
            /\ q.responses[1].error = "Transaction creation failed"
            /\ ~Happened(q, "broadcast")
            /\ ~Broadcast(q)

\* the second of three signatures was refused
C13_Witness ==
    \E r \in Reqs :
        LET q == reqs[r] IN
        /\ q.variant = "multi" /\ SigningFailed(q)
        /\ Len(q.inputs) = 3 /\ Count(q, "sign") = 2

\* the request as it ends when the balance lookup answers bal
SucceededLookup(q, bal) ==
    IF q.variant = "unsigned"
    THEN UnsignedOnBalance(q, <<bal>>)
    ELSE OnBalance(q, <<bal>>)

\* C14: the balance lookup after the build is best-effort: when it fails,
\* the request still ends with a success response whose walletBalance is
\* null and whose other fields (transactionId or unsignedTx,
\* transferredAmount, chargedAmount) are those of the response after a
\* lookup that succeeded; a failed lookup never gives an error response.
C14_BalanceBestEffort ==
    [][\A r \in Reqs :
          BalanceFail(r) =>
              LET q0   == reqs[r]
                  q    == reqs'[r]
                  resp == q.responses[Len(q.responses)]
              IN
              /\ q.pc = "done"
              /\ Len(q.responses) = 1
              /\ resp.status = 200
              /\ resp.error = ""
              /\ resp.data.walletBalance = << >>
              /\ resp.data.transferredAmount = toString(q0.amountToSend)
              /\ resp.data.chargedAmount
                    = toString(q0.amountToSend + q0.feeAmount)
              /\ q0.variant \in Signing =>
                    resp.data.transactionId = q0.txResponse[1].transactionId
              /\ \A bal \in Balances :
                    LET ok == SucceededLookup(q0, bal).responses[1] IN
                    /\ ok.status = resp.status
                    /\ ok.data.walletBalance = <<bal>>
                    /\ [ok.data EXCEPT !.walletBalance = << >>] = resp.data
              /\ q.restApiJson = q0.restApiJson]_vars

\* a broadcast of the multi-UTXO handler answered with a null balance
C14_Witness ==
    \E r \in Reqs :
        LET q == reqs[r] IN
        /\ q.variant = "multi" /\ q.pc = "done"
        /\ Happened(q, "fetchBalance")
        /\ q.responses[1].status = 200
        /\ q.responses[1].data.walletBalance = << >>
        /\ q.responses[1].data.transactionId = "accepted"

\* amount + fee in sompi, of a body whose amounts are numbers
TargetOf(b) == MathFloorTimes1e8(b.amount.n) + MathFloorTimes1e8(b.fee.n)

OwnRun(q) ==
    LET q0 == MultiReceive([IdleReq EXCEPT !.variant = "multi",
                                           !.body = q.body])
        fetched == IF q0.pc = "awaitUtxos" /\ Happened(q, "utxosFetched")
                   THEN {MultiOnUtxos(q0, q.utxos, f) :
                            f \in LibFailures(Len(q.utxos))}
                   ELSE {}
        posted == {x \in fetched : x.pc = "awaitBroadcast"}
        accepted == {OnBroadcast(x, q.txResponse[1]) :
                        x \in {y \in posted : q.txResponse # << >>}}
        answers == {<< >>} \cup {<<bal>> : bal \in Balances}
    IN  {q0}
        \cup (IF q0.pc = "awaitUtxos"
              THEN {Catch(q0, "Network Error")} ELSE {})
        \cup fetched
        \cup {OnBroadcastFail(x) : x \in posted}
        \cup accepted
        \cup {OnBalance(x, bal) : x \in accepted, bal \in answers}

\* C16: requests of the multi-UTXO handler that interleave at their awaits
\* are independent: a step of one request leaves every other request as it
\* is, and each request's record (selected inputs, payload, response) is
\* the one it has when it runs alone with its own body and the answers it
\* was given.
C16_Independent ==
    [][\A r \in Reqs :
          /\ \A o \in Reqs \ {r} :
                reqs'[r] # reqs[r] => reqs'[o] = reqs[o]
          /\ reqs'[r].pc # "idle" => reqs'[r] \in OwnRun(reqs'[r])]_vars

\* both requests in flight with different amounts: one has its answer, the
\* other waits for its broadcast with another selection
C16_Witness ==
    /\ reqs[1].pc = "awaitBroadcast" /\ reqs[2].pc = "done"
    /\ reqs[1].body # reqs[2].body
    /\ Len(reqs[1].inputs) = 2 /\ Len(reqs[2].inputs) = 1
    /\ reqs[2].responses[1].status = 200

\* C17: every payload handed to the broadcast has the fixed wire shape:
\* version 0, lockTime 0, a subnetworkId of forty characters '0',
\* allowOrphan true; every input has sequence 0, sigOpCount 1 and the
\* signature script "41", the signature, "01"; every output has script
\* version 0.
C17_WireShape ==
    \A r \in Reqs :
        LET q == reqs[r] IN
        (q.variant \in Signing /\ Broadcast(q)) =>
            LET p == q.restApiJson[1] IN
            /\ p.transaction.version = 0
            /\ p.transaction.lockTime = 0
            /\ Len(p.transaction.subnetworkId) = 40
            /\ \A i \in 1..40 : p.transaction.subnetworkId[i] = "0"
            /\ p.allowOrphan = TRUE
            /\ \A i \in 1..Len(p.transaction.inputs) :
                  LET in == p.transaction.inputs[i] IN
                  /\ in.sequence = 0
                  /\ in.sigOpCount = 1
                  /\ Len(in.signatureScript) = 3
                  /\ in.signatureScript[1] = "41"
                  /\ in.signatureScript[2].by = q.body.privateKey
                  /\ in.signatureScript[3] = "01"
            /\ \A k \in 1..Len(p.transaction.outputs) :
                  p.transaction.outputs[k].scriptPublicKey.version = 0

\* a payload of the multi-UTXO handler with three inputs and two outputs
C17_Witness ==
    \E r \in Reqs :
        LET q == reqs[r] IN
        /\ q.variant = "multi" /\ Broadcast(q)
        /\ Len(PayloadInputs(q)) = 3 /\ Len(PayloadOutputs(q)) = 2
        /\ q.restApiJson[1].allowOrphan

\* the signature carried by the i-th input of the payload
SignatureOf(q, i) == PayloadInputs(q)[i].signatureScript[2]

\* C18: in every payload of the multi-UTXO and the single-UTXO handler the
\* signature of the i-th input is made with the request's key over the
\* digest for input index i (counted from 0) with SIGHASH ALL, of the
\* transaction that holds all selected inputs and all outputs.
C18_OwnIndexSigned ==
    \A r \in Reqs :
        LET q == reqs[r] IN
        (q.variant \in Signing /\ Broadcast(q)) =>
            /\ Len(PayloadInputs(q)) = Len(q.inputs)
            /\ \A i \in 1..Len(PayloadInputs(q)) :
                  LET sig == SignatureOf(q, i) IN
                  /\ sig.index = i - 1
                  /\ sig.sighash = "ALL"
                  /\ sig.by = q.body.privateKey
                  /\ Len(sig.inputs) = Len(q.inputs)
                  /\ \A j \in 1..Len(q.inputs) :
                        sig.inputs[j]
                          = <<q.inputs[j].outpoint.transactionId,
                              q.inputs[j].outpoint.index>>
                  /\ Len(sig.outputs) = Len(PayloadOutputs(q))
                  /\ \A k \in 1..Len(sig.outputs) :
                        /\ sig.outputs[k].satoshis
                              = PayloadOutputs(q)[k].amount
                        /\ sig.outputs[k].script
                              = PayloadOutputs(q)[k].scriptPublicKey
                                                    .scriptPublicKey

\* the third input of a payload with a change output, signed under index 2
C18_Witness ==
    \E r \in Reqs :
        LET q == reqs[r] IN
        /\ q.variant = "multi" /\ Broadcast(q)
        /\ Len(PayloadInputs(q)) = 3
        /\ SignatureOf(q, 3).index = 2
        /\ Len(SignatureOf(q, 3).outputs) = 2

\* the request ended with the success response of a signing handler
Succeeded(q) ==
    /\ q.variant \in Signing /\ q.pc = "done"
    /\ q.responses # << >> /\ q.responses[1].status = 200

\* what the payload returns to the sender, and what it takes from the
\* selected inputs beyond that
ReturnedChange(q) ==
    SeqSum([k \in 1..Len(PayloadOutputs(q)) |->
              IF k \in ChangeOutputs(q) THEN PayloadOutputs(q)[k].amount
              ELSE 0])
Debited(q) == SpentValue(q) - ReturnedChange(q)

\* C19 as stated: in every success response transferredAmount is the
\* decimal string of the converted amount and chargedAmount that of
\* amount + fee, and these are the recipient output's amount and the value
\* debited from the selected inputs beyond the returned change.
C19_AsStated ==
    \A r \in Reqs :
        LET q == reqs[r] IN
        Succeeded(q) =>
            LET data == q.responses[1].data IN
            /\ data.transferredAmount = toString(TargetOf(
                    [q.body EXCEPT !.fee = Num(0)]))
            /\ data.chargedAmount = toString(TargetOf(q.body))
            /\ data.transferredAmount = toString(PayloadOutputs(q)[1].amount)
            /\ data.chargedAmount = toString(Debited(q))

\* C19: in every success response transferredAmount is the decimal string
\* of the converted amount and chargedAmount that of amount + fee;
\* transferredAmount is the amount of the payload's recipient output, and
\* the value debited from the selected inputs beyond the returned change is
\* the charged amount plus the change that was forfeited because it was
\* below 2,000,000 sompi (nothing when a change output is emitted).
C19_ResponseAmounts ==
    \A r \in Reqs :
        LET q == reqs[r] IN
        Succeeded(q) =>
            LET data == q.responses[1].data
                forfeited == IF ChangeOutputs(q) = {}
                             THEN ComputedChange(q) ELSE 0
            IN
            /\ data.transferredAmount = toString(TargetOf(
                    [q.body EXCEPT !.fee = Num(0)]))
            /\ data.chargedAmount = toString(TargetOf(q.body))
            /\ PaysTo(PayloadOutputs(q)[1], q.body.recipientAddress)
            /\ data.transferredAmount = toString(PayloadOutputs(q)[1].amount)
            /\ forfeited >= 0 /\ forfeited < MinChange
            /\ toString(Debited(q) - forfeited) = data.chargedAmount

\* a success response that reports 100000000 charged for a payload that
\* forfeits change of 1999999
C19_Witness ==
    \E r \in Reqs :
        LET q == reqs[r] IN
        /\ Succeeded(q) /\ q.variant = "multi"
        /\ ChangeOutputs(q) = {}
        /\ ComputedChange(q) = 1999999
        /\ q.responses[1].data.chargedAmount = toString(100000000)
        /\ Debited(q) = 101999999

\* the ledger listed one UTXO that covers amount + fee, to both handlers
OneCoveringUtxo ==
    /\ reqs[1].variant = "multi" /\ reqs[2].variant = "single"
    /\ reqs[1].body = reqs[2].body
    /\ Happened(reqs[1], "utxosFetched") /\ Happened(reqs[2], "utxosFetched")
    /\ reqs[1].utxos = reqs[2].utxos
    /\ Len(reqs[1].utxos) = 1
    /\ reqs[1].utxos[1].amount >= TargetOf(reqs[1].body)

\* C20: for a valid request and a candidate list of one UTXO that covers
\* amount + fee, the multi-UTXO handler and the single-UTXO handler reach
\* the same outcome (both broadcast or both answer the same error, and
\* then the same response) and, when they broadcast, their payloads have
\* the same inputs and the same outputs.
C20_MultiGeneralizesSingle ==
    OneCoveringUtxo =>
        /\ Broadcast(reqs[1]) <=> Broadcast(reqs[2])
        /\ reqs[1].pc = reqs[2].pc
        /\ reqs[1].responses = reqs[2].responses
        /\ Broadcast(reqs[1]) =>
              /\ PayloadInputs(reqs[1]) = PayloadInputs(reqs[2])
              /\ PayloadOutputs(reqs[1]) = PayloadOutputs(reqs[2])

\* the request of the scenario, answered by the ledger: amount 1.499999,
\* fee 0, one candidate of 150000000
Scenario1499999(q) ==
    /\ q.variant = "multi"
    /\ q.body.amount = Num(1499999000) /\ q.body.fee = Num(0)
    /\ Happened(q, "utxosFetched")
    /\ q.utxos = UtxosOf(<<150000000>>)

\* what the scenario does whatever its change is: the UTXO is selected,
\* the request is not refused as insufficient, and the payload it hands to
\* the broadcast has the recipient output alone, the change being left to
\* the fee
ScenarioOutcome(q) ==
    /\ q.inputs = q.utxos
    /\ q.changeAmount < 2000000
    /\ (q.pc = "done" /\ ~Broadcast(q)) => q.responses[1].status = 500
    /\ Broadcast(q) =>
          /\ Len(PayloadInputs(q)) = 1
          /\ PayloadInputs(q)[1].previousOutpoint = q.utxos[1].outpoint
          /\ Len(PayloadOutputs(q)) = 1
          /\ PaysTo(PayloadOutputs(q)[1], q.body.recipientAddress)
          /\ ChangeOutputs(q) = {}
          /\ SpentValue(q) - PaidValue(q) - q.feeAmount = q.changeAmount

\* C21 as stated: in the scenario the change is 10000.
C21_AsStated ==
    \A r \in Reqs :
        LET q == reqs[r] IN
        Scenario1499999(q) =>
            /\ q.changeAmount = 10000
            /\ ScenarioOutcome(q)

\* C21: with one candidate of 150000000, amount 1.499999 and fee 0 the
\* multi-UTXO handler selects that UTXO, converts the amount to 149999900
\* sompi, computes the change 100, which is below the minimum of 2000000,
\* and hands to the broadcast a payload with the recipient output of
\* 149999900 alone; the change of 100 is forfeited as extra fee.
C21_Scenario ==
    \A r \in Reqs :
        LET q == reqs[r] IN
        Scenario1499999(q) =>
            /\ q.amountToSend = 149999900
            /\ q.changeAmount = 100
            /\ ScenarioOutcome(q)
            /\ Broadcast(q) => PayloadOutputs(q)[1].amount = 149999900

\* the scenario's payload at the broadcast
C21_Witness ==
    \E r \in Reqs :
        LET q == reqs[r] IN
        /\ Scenario1499999(q) /\ Broadcast(q)
        /\ q.pc = "awaitBroadcast"
        /\ PaidValue(q) = 149999900

\* the first m candidates
Prefix(utxos, m) == SubSeq(utxos, 1, m)

\* the lengths of the non-empty prefixes that cover the target
Covering(utxos, target) ==
    {m \in 1..Len(utxos) : SumAmounts(Prefix(utxos, m)) >= target}

\* C22: the inputs the multi-UTXO handler selects are a prefix of the
\* candidate list in the ledger's order, with no candidate skipped or
\* reordered: the shortest non-empty prefix that covers the target, or the
\* whole list when none does, so that list and target fix the sequence;
\* the inputs of the transaction, and of the payload, are the selected
\* UTXOs in that order.
C22_PrefixSelection ==
    \A r \in Reqs :
        LET q == reqs[r]
            n == Len(q.inputs)
            target == TargetOf(q.body)
        IN
        (q.variant = "multi" /\ Happened(q, "utxosFetched")) =>
            /\ n <= Len(q.utxos)
            /\ \A i \in 1..n : q.inputs[i] = q.utxos[i]
            /\ IF Covering(q.utxos, target) = {}
               THEN n = Len(q.utxos)
               ELSE /\ n \in Covering(q.utxos, target)
                    /\ \A m \in Covering(q.utxos, target) : n <= m
            /\ Happened(q, "Selected") =>
                  /\ Len(q.tx.inputs) = n
                  /\ \A i \in 1..n :
                        /\ q.tx.inputs[i].prevTxId
                              = q.utxos[i].outpoint.transactionId
                        /\ q.tx.inputs[i].outputIndex
                              = q.utxos[i].outpoint.index
            /\ Broadcast(q) =>
                  /\ Len(PayloadInputs(q)) = n
                  /\ \A i \in 1..n :
                        PayloadInputs(q)[i].previousOutpoint
                          = q.utxos[i].outpoint

\* the first two of three candidates were selected, the second larger
\* than the third
C22_Witness ==
    \E r \in Reqs :
        LET q == reqs[r] IN
        /\ q.variant = "multi" /\ Happened(q, "Selected")
        /\ Len(q.utxos) = 3 /\ Len(q.inputs) = 2
        /\ q.utxos[1].amount < q.utxos[3].amount
        /\ q.utxos[3].amount < q.utxos[2].amount
        /\ Len(q.tx.inputs) = 2

\* C23: every transaction the multi-UTXO handler broadcasts for a request
\* that passed validation spends at least one input and pays the recipient
\* a strictly positive amount, whatever list the ledger answered, the
\* empty list included.
C23_SpendsAndPays ==
    \A r \in Reqs :
        LET q == reqs[r] IN
        (q.variant = "multi" /\ Validate(q.body) = "" /\ Broadcast(q)) =>
            /\ Len(PayloadInputs(q)) >= 1
            /\ PaysTo(PayloadOutputs(q)[1], q.body.recipientAddress)
            /\ PayloadOutputs(q)[1].amount > 0

\* the request has its one response and is over
Responded(r) == reqs[r].pc = "done" /\ Len(reqs[r].responses) = 1

\* C24: every request of the three handlers receives exactly one response:
\* at no time has a request more than one, a request with a response is
\* over and stays as it is, and, the awaited calls all ending, every
\* request that arrived is eventually answered, on every path.
C24_ExactlyOneResponse ==
    /\ [](\A r \in Reqs :
            /\ Len(reqs[r].responses) <= 1
            /\ reqs[r].responses # << >> <=> reqs[r].pc = "done"
            /\ Count(reqs[r], "respond") = Len(reqs[r].responses))
    /\ [][\A r \in Reqs :
            reqs[r].responses # << >> => reqs'[r] = reqs[r]]_vars
    /\ \A r \in Reqs : (reqs[r].pc # "idle") ~> Responded(r)

\* the longest path: the broadcast went through, the balance lookup
\* failed, and the one response is the success
C24_Witness ==
    \E r \in Reqs :
        /\ Responded(r)
        /\ reqs[r].variant = "single"
        /\ Happened(reqs[r], "fetchBalance")
        /\ reqs[r].responses[1].status = 200
        /\ reqs[r].responses[1].data.walletBalance = << >>

\* the outpoints the payload of q spends
SpentOutpoints(q) ==
    {PayloadInputs(q)[i].previousOutpoint : i \in 1..Len(PayloadInputs(q))}

\* C25: when requests for the same sender are handled at once and the
\* ledger lists the same UTXOs to each of them, no outpoint
\* (transactionId, index) is an input of more than one broadcast payload.
C25_NoOutpointTwice ==
    \A r1, r2 \in Reqs :
        LET q1 == reqs[r1]  q2 == reqs[r2] IN
        (/\ r1 # r2
         /\ q1.variant = "multi" /\ q2.variant = "multi"
         /\ q1.body.senderAddress = q2.body.senderAddress
         /\ Broadcast(q1) /\ Broadcast(q2)
         /\ q1.utxos = q2.utxos) =>
            SpentOutpoints(q1) \cap SpentOutpoints(q2) = {}

====
